---- MODULE Spec2Model ----
(***************************************************************************)
(* Model of scripts/vpro-to-wu.py: the WindGust tracker, the poll cycle    *)
(* weather_update and the __main__ polling loop.                           *)
(*                                                                         *)
(* Representation:                                                         *)
(*  - TempOut is held in tenths of a degree (72.0 -> 720, 200.1 -> 2001).  *)
(*  - 'NA' is the number NA (-1); wind speeds and directions are >= 0.     *)
(*  - station.fields['Archive'] is a sequence: <<>> for None, <<rec>> for  *)
(*    a record.                                                            *)
(*  - self.count is held in units of 1/delay ticks (count * delay), so the *)
(*    quotient 600 / delay of Python 3's true division is exact; one tick  *)
(*    is delay.val units.                                                  *)
(*  - the script runs under "python" (line 1), which is Python 2 or 3: py  *)
(*    is fixed at start and decides what "/" on two ints computes.         *)
(***************************************************************************)
EXTENDS Integers, Sequences, FiniteSets, TLC

VARIABLES
    pc,         \* position of __main__: start, sleep, cycle, exited, crashed; harness
    args,       \* number of positional command line arguments
    delay,      \* opts.delay: [type, val]; optparse stores a given value as str
    py,         \* major version of the interpreter
    now,        \* time.time(), in seconds
    fields,     \* station.fields
    value,      \* WindGust.value
    count,      \* WindGust.count, in units of 1/delay.val
    calls,      \* collaborator calls made by the cycle that last ran
    exc,        \* exception the last cycle raised, "none" if it returned
    errors,     \* log.error calls made for the cycle that last ran
    exitCode,   \* process exit status, NA while running
    ret,        \* value returned by the last WindGust.get call
    prevValue,  \* WindGust.value before the last get call or cycle
    prevCount,  \* WindGust.count before the last get call or cycle
    resetTo,    \* <<n>> when the last get call assigned count (line 52), else <<>>
    lastGust,   \* pair of the last qualifying archive record seen by get
    sinceGust,  \* get calls since that record, its own call included; 0 if none
                \* or if a later call carried an archive record
    lastRec,    \* <<[hi, dir, avg]>>: the last archive record get saw, with the
                \* WindSpeed10Min of its sample; <<>> if none
    next_update,\* seconds the last sleep was asked to last; 0 before the first
    tick,       \* time at which the last sleep ended; NA before the first
    prevTick    \* time at which the sleep before that ended; NA if none

vars == <<pc, args, delay, py, now, fields, value, count, calls, exc, errors,
          exitCode, ret, prevValue, prevCount, resetTo, lastGust, sinceGust,
          lastRec, next_update, tick, prevTick>>

gustHist == <<ret, prevValue, prevCount, resetTo, lastGust, sinceGust, lastRec>>

clock == <<next_update, tick, prevTick>>

----------------------------------------------------------------------------
(* Program constants *)

ARCHIVE_PER == 10
GUST_UPDATE_PER == 10
GUST_MPH_MIN == 7
NA == -1
NO_VALUE == <<NA, NA>>
DEFAULT_DELAY == 60

----------------------------------------------------------------------------
(* Bounds *)

MaxArgs == 3        \* positional arguments given: 0..MaxArgs
MaxStart == 61      \* the process starts at a time in 0..MaxStart
MaxCycle == 61      \* a cycle takes at most MaxCycle seconds
MaxNow == 200       \* no sleep starts after MaxNow
MaxUnder == 3       \* get is not called once count is below -MaxUnder ticks
MaxSince == 100     \* sinceGust saturates here

PyVersions == {2, 3}
CycleTimes == {0, 1, MaxCycle}
CliDelays == {30, 60}
Delays == {7, 60, 250, 600, 700}
Temps == {720, 2000, 2001}
Winds == {5}
WindDirs == {180}
ArchiveRecs == {[WindHi |-> h, WindHiDir |-> d] : h \in {11, 12, 15}, d \in {90, 270}}
Archives == {<<>>} \cup {<<r>> : r \in ArchiveRecs}
Samples == [TempOut : Temps, WindSpeed10Min : Winds, WindDir : WindDirs,
            Archive : Archives]
NoFields == [TempOut |-> 0, WindSpeed10Min |-> 0, WindDir |-> 0, Archive |-> <<>>]
DelayOpts == {[type |-> "int", val |-> DEFAULT_DELAY]}
             \cup {[type |-> "str", val |-> n] : n \in CliDelays}

----------------------------------------------------------------------------
(* WindGust *)

\* a / b on two ints, in units of 1/b: floor division in Python 2, true
\* division in Python 3
PyDiv(a, b, v) == IF v = 2 THEN (a \div b) * b ELSE a

\* the threshold without the minimum above the average
ThresholdNoMin(f) == f.WindSpeed10Min

\* threshold = station.fields['WindSpeed10Min'] + GUST_MPH_MIN
Threshold(f) == f.WindSpeed10Min + GUST_MPH_MIN

Qualifies(f) == Len(f.Archive) > 0 /\ f.Archive[1].WindHi >= Threshold(f)

ResetCount(d, v) == PyDiv(GUST_UPDATE_PER * 60, d, v)

\* NewData without its else branch: a record below the threshold leaves the
\* stored value alone
NewDataKeepsValue(val, cnt, f, d, v) ==
    IF Len(f.Archive) > 0 /\ f.Archive[1].WindHi >= Threshold(f)
    THEN [value |-> <<f.Archive[1].WindHi, f.Archive[1].WindHiDir>>,
          count |-> ResetCount(d, v), reset |-> <<ResetCount(d, v)>>]
    ELSE [value |-> val, count |-> cnt, reset |-> <<>>]

\* "process new data"
NewData(val, cnt, f, d, v) ==
    IF Len(f.Archive) > 0
    THEN LET rec == f.Archive[1] IN
         IF rec.WindHi >= Threshold(f)
         THEN [value |-> <<rec.WindHi, rec.WindHiDir>>,
               count |-> ResetCount(d, v), reset |-> <<ResetCount(d, v)>>]
         ELSE [value |-> NO_VALUE, count |-> cnt, reset |-> <<>>]
    ELSE [value |-> val, count |-> cnt, reset |-> <<>>]

\* Expire reporting a zero gust in place of NO_VALUE
ExpireToZero(val, cnt, d) ==
    IF cnt # 0
    THEN [value |-> val, count |-> cnt - d]
    ELSE [value |-> <<0, 0>>, count |-> cnt]

\* "return gust value, if remaining time is left, and valid"
Expire(val, cnt, d) ==
    IF cnt # 0
    THEN [value |-> val, count |-> cnt - d]
    ELSE [value |-> NO_VALUE, count |-> cnt]

\* WindGust.get(station, delay): the state it leaves and the value it returns
GetBody(val, cnt, f, d, v) ==
    LET n == NewData(val, cnt, f, d, v)
        e == Expire(n.value, n.count, d)
    IN  [value |-> e.value, count |-> e.count, reset |-> n.reset, ret |-> e.value]

----------------------------------------------------------------------------
(* weather_update *)

GET_PARAMS == 2     \* get(self, station, delay): station, delay
GET_ARGS == 1       \* WindGust.get( station )

\* the sanity check with >= in place of >
OutOfRangeInclusive(f) == f.TempOut >= 200 * 10

\* "santity check weather data"
OutOfRange(f) == f.TempOut > 200 * 10

\* weather_update computing the gust (with the poll interval) before the
\* sanity check
WeatherUpdateGustFirst(old, f, parseOK, pubOK, val, cnt, d, v) ==
    IF ~parseOK
    THEN [calls |-> <<"parse">>, exc |-> "DriverFault", fields |-> old,
          value |-> val, count |-> cnt, ret |-> <<>>]
    ELSE LET g == GetBody(val, cnt, f, d, v) IN
         IF OutOfRange(f)
         THEN [calls |-> <<"parse", "get">>, exc |-> "NoSensorException",
               fields |-> f, value |-> g.value, count |-> g.count,
               ret |-> <<g.ret>>]
         ELSE [calls |-> <<"parse", "get", "set", "publish">>,
               exc |-> IF pubOK THEN "none" ELSE "PublishFault", fields |-> f,
               value |-> g.value, count |-> g.count, ret |-> <<g.ret>>]

\* weather_update reading the station a second time, and going on, when the
\* first read fails
WeatherUpdateRetry(old, f, parseOK, pubOK, val, cnt, d, v) ==
    IF ~parseOK
    THEN [calls |-> <<"parse", "parse">>,
          exc |-> IF OutOfRange(f) THEN "NoSensorException" ELSE "TypeError",
          fields |-> f, value |-> val, count |-> cnt, ret |-> <<>>]
    ELSE IF OutOfRange(f)
    THEN [calls |-> <<"parse">>, exc |-> "NoSensorException", fields |-> f,
          value |-> val, count |-> cnt, ret |-> <<>>]
    ELSE [calls |-> <<"parse">>, exc |-> "TypeError", fields |-> f,
          value |-> val, count |-> cnt, ret |-> <<>>]

\* One call of weather_update: the sample parse() leaves in station.fields
\* (or its failure), then validation, gust, set and publish.
WeatherUpdate(old, f, parseOK, pubOK, val, cnt, d, v) ==
    IF ~parseOK
    THEN [calls |-> <<"parse">>, exc |-> "DriverFault", fields |-> old,
          value |-> val, count |-> cnt, ret |-> <<>>]
    ELSE IF OutOfRange(f)
    THEN [calls |-> <<"parse">>, exc |-> "NoSensorException", fields |-> f,
          value |-> val, count |-> cnt, ret |-> <<>>]
    ELSE IF GET_ARGS # GET_PARAMS
    THEN [calls |-> <<"parse">>, exc |-> "TypeError", fields |-> f,
          value |-> val, count |-> cnt, ret |-> <<>>]
    ELSE LET g == GetBody(val, cnt, f, d, v) IN
         IF ~pubOK
         THEN [calls |-> <<"parse", "get", "set", "publish">>,
               exc |-> "PublishFault", fields |-> f,
               value |-> g.value, count |-> g.count, ret |-> <<g.ret>>]
         ELSE [calls |-> <<"parse", "get", "set", "publish">>,
               exc |-> "none", fields |-> f,
               value |-> g.value, count |-> g.count, ret |-> <<g.ret>>]

----------------------------------------------------------------------------
(* __main__ *)

Init ==
    /\ pc = "start"
    /\ args \in 0..MaxArgs
    /\ delay \in DelayOpts
    /\ py \in PyVersions
    /\ now \in 0..MaxStart
    /\ fields = NoFields
    /\ value = NO_VALUE
    /\ count = 0
    /\ calls = <<>>
    /\ exc = "none"
    /\ errors = 0
    /\ exitCode = NA
    /\ ret = NO_VALUE
    /\ prevValue = NO_VALUE
    /\ prevCount = 0
    /\ resetTo = <<>>
    /\ lastGust = NO_VALUE
    /\ sinceGust = 0
    /\ lastRec = <<>>
    /\ next_update = 0
    /\ tick = NA
    /\ prevTick = NA

\* argument check, then construction of station and net
Startup ==
    /\ pc = "start"
    /\ IF args # 2
       THEN /\ pc' = "exited"
            /\ errors' = 1
            /\ exitCode' = (-1) % 256
       ELSE /\ pc' = "sleep"
            /\ UNCHANGED <<errors, exitCode>>
    /\ UNCHANGED <<args, delay, py, now, fields, value, count, calls, exc>>
    /\ UNCHANGED gustHist
    /\ UNCHANGED clock

\* a fixed sleep of one interval after each cycle
NextUpdateFixed(t, d) == d

\* next_update = opts.delay - (time.time() % opts.delay)
NextUpdate(t, d) == d - (t % d)

\* "delay till next update time"; time.time() % opts.delay raises TypeError
\* outside the try when opts.delay is a str
Sleep ==
    /\ pc = "sleep"
    /\ now <= MaxNow
    /\ IF delay.type = "str"
       THEN /\ pc' = "crashed"
            /\ exitCode' = 1
            /\ UNCHANGED <<now, calls>>
            /\ UNCHANGED clock
       ELSE /\ pc' = "cycle"
            /\ next_update' = NextUpdate(now, delay.val)
            /\ now' = now + next_update'
            /\ tick' = now'
            /\ prevTick' = tick
            /\ calls' = <<>>
            /\ UNCHANGED exitCode
    /\ UNCHANGED <<args, delay, py, fields, value, count, exc, errors>>
    /\ UNCHANGED gustHist

\* the cycle without the try: an exception of weather_update ends the process
CycleNoCatch ==
    /\ pc = "cycle"
    /\ \E f \in Samples, parseOK \in BOOLEAN, pubOK \in BOOLEAN, dt \in CycleTimes :
         LET r == WeatherUpdate(fields, f, parseOK, pubOK, value, count,
                                delay.val, py) IN
         /\ fields' = r.fields
         /\ value' = r.value
         /\ count' = r.count
         /\ calls' = r.calls
         /\ exc' = r.exc
         /\ errors' = 0
         /\ ret' = IF r.ret # <<>> THEN r.ret[1] ELSE ret
         /\ now' = now + dt
         /\ pc' = IF r.exc # "none" THEN "crashed" ELSE "sleep"
         /\ exitCode' = IF r.exc # "none" THEN 1 ELSE exitCode
    /\ prevValue' = value
    /\ prevCount' = count
    /\ UNCHANGED <<args, delay, py>>
    /\ UNCHANGED <<resetTo, lastGust, sinceGust, lastRec>>
    /\ UNCHANGED clock

\* try: weather_update(...) except Exception: log.error(e)
Cycle ==
    /\ pc = "cycle"
    /\ \E f \in Samples, parseOK \in BOOLEAN, pubOK \in BOOLEAN, dt \in CycleTimes :
         LET r == WeatherUpdate(fields, f, parseOK, pubOK, value, count,
                                delay.val, py) IN
         /\ fields' = r.fields
         /\ value' = r.value
         /\ count' = r.count
         /\ calls' = r.calls
         /\ exc' = r.exc
         /\ errors' = IF r.exc # "none" THEN 1 ELSE 0
         /\ ret' = IF r.ret # <<>> THEN r.ret[1] ELSE ret
         /\ now' = now + dt
    /\ pc' = "sleep"
    /\ prevValue' = value
    /\ prevCount' = count
    /\ UNCHANGED <<args, delay, py, exitCode>>
    /\ UNCHANGED <<resetTo, lastGust, sinceGust, lastRec>>
    /\ UNCHANGED clock

Next == Startup \/ Sleep \/ Cycle

Spec == Init /\ [][Next]_vars

----------------------------------------------------------------------------
(* WindGust.get applied to any sequence of samples, for any poll interval *)

GustInit ==
    /\ pc = "harness"
    /\ args = 2
    /\ delay \in {[type |-> "int", val |-> d] : d \in Delays}
    /\ py \in PyVersions
    /\ now = 0
    /\ fields = NoFields
    /\ value = NO_VALUE
    /\ count = 0
    /\ calls = <<>>
    /\ exc = "none"
    /\ errors = 0
    /\ exitCode = NA
    /\ ret = NO_VALUE
    /\ prevValue = NO_VALUE
    /\ prevCount = 0
    /\ resetTo = <<>>
    /\ lastGust = NO_VALUE
    /\ sinceGust = 0
    /\ lastRec = <<>>
    /\ next_update = 0
    /\ tick = NA
    /\ prevTick = NA

Min(a, b) == IF a < b THEN a ELSE b

Get ==
    /\ pc = "harness"
    /\ count >= -(MaxUnder * delay.val)
    /\ \E f \in Samples :
         LET g == GetBody(value, count, f, delay.val, py) IN
         /\ fields' = f
         /\ value' = g.value
         /\ count' = g.count
         /\ ret' = g.ret
         /\ resetTo' = g.reset
         /\ prevValue' = value
         /\ prevCount' = count
         /\ lastGust' = IF Qualifies(f)
                        THEN <<f.Archive[1].WindHi, f.Archive[1].WindHiDir>>
                        ELSE lastGust
         /\ sinceGust' = IF Qualifies(f) THEN 1
                         ELSE IF sinceGust = 0 \/ Len(f.Archive) > 0 THEN 0
                         ELSE Min(sinceGust + 1, MaxSince)
         /\ lastRec' = IF Len(f.Archive) > 0
                       THEN <<[hi |-> f.Archive[1].WindHi,
                               dir |-> f.Archive[1].WindHiDir,
                               avg |-> f.WindSpeed10Min]>>
                       ELSE lastRec
    /\ calls' = <<"get">>
    /\ UNCHANGED <<pc, args, delay, py, now, exc, errors, exitCode>>
    /\ UNCHANGED clock

NextGust == Get

SpecGust == GustInit /\ [][NextGust]_vars

----------------------------------------------------------------------------
(* The polling loop for any numeric poll interval *)

ClockInit ==
    /\ pc = "sleep"
    /\ args = 2
    /\ delay \in {[type |-> "int", val |-> d] : d \in Delays}
    /\ py \in PyVersions
    /\ now \in 0..MaxStart
    /\ fields = NoFields
    /\ value = NO_VALUE
    /\ count = 0
    /\ calls = <<>>
    /\ exc = "none"
    /\ errors = 0
    /\ exitCode = NA
    /\ ret = NO_VALUE
    /\ prevValue = NO_VALUE
    /\ prevCount = 0
    /\ resetTo = <<>>
    /\ lastGust = NO_VALUE
    /\ sinceGust = 0
    /\ lastRec = <<>>
    /\ next_update = 0
    /\ tick = NA
    /\ prevTick = NA

NextClock == Sleep \/ Cycle

SpecClock == ClockInit /\ [][NextClock]_vars

----------------------------------------------------------------------------
(* Claims *)

Ceil(a, b) == (a + b - 1) \div b

\* ceil(600 / d) for the poll interval d of the behaviour
WindowTicks == Ceil(600, delay.val)

\* the last step was a cycle in which station.parse() returned normally
ParsedCycle == pc = "sleep" /\ calls # <<>> /\ exc # "DriverFault"

\* the last step was a get call
GetCalled == pc = "harness" /\ calls = <<"get">>

HasArchive == Len(fields.Archive) > 0

ArchivePair == <<fields.Archive[1].WindHi, fields.Archive[1].WindHiDir>>

\* C1: a cycle in which parse() returned normally and the outdoor
\* temperature is <= 200 calls the GustTracker, then publisher.set once,
\* then publisher.publish once, in that order.
C1_CycleSetsThenPublishes ==
    (ParsedCycle /\ fields.TempOut <= 2000)
        => calls = <<"parse", "get", "set", "publish">>

\* C2: once the argument check has passed (two positional arguments), the
\* process never terminates on its own, whatever --update-delay was given.
C2_NeverStopsAfterStartup ==
    (args = 2) => pc \notin {"exited", "crashed"}

\* C3: the call that observes a qualifying archive record and the following
\* ceil(600/d) - 1 calls (none of them with an archive record) return that
\* record's (windHi, windHiDir); the call after those returns the sentinel.
C3_GustWindow ==
    GetCalled =>
        /\ (sinceGust >= 1 /\ sinceGust <= WindowTicks) => ret = lastGust
        /\ (sinceGust = WindowTicks + 1) => ret = NO_VALUE

\* C4: a get call that observes a qualifying archive record resets the
\* counter to exactly ceil(600 / d) ticks.
C4_ResetIsCeil ==
    (GetCalled /\ resetTo # <<>>) => resetTo[1] = WindowTicks * delay.val

\* C5: after any sequence of get calls the counter is an integer >= 0.
C5_CountNatural ==
    count >= 0 /\ count % delay.val = 0

\* C6: a get call whose archive record has windHi >= windSpeed10Min + 7
\* returns (archive.windHi, archive.windHiDir).
C6_QualifyingReported ==
    (GetCalled /\ HasArchive /\ fields.Archive[1].WindHi >= fields.WindSpeed10Min + 7)
        => ret = ArchivePair

\* C7: a get call whose archive record has windHi < windSpeed10Min + 7
\* stores the sentinel and returns the sentinel, whatever the prior state.
C7_BelowThresholdResets ==
    (GetCalled /\ HasArchive /\ fields.Archive[1].WindHi < fields.WindSpeed10Min + 7)
        => (value = <<NA, NA>> /\ ret = <<NA, NA>>)

\* C7 witness: a record one below the threshold arrives while an earlier
\* gust is still active, and the call returns the sentinel.
C7_Witness ==
    /\ GetCalled /\ HasArchive
    /\ fields.Archive[1].WindHi = fields.WindSpeed10Min + 6
    /\ prevValue # <<NA, NA>> /\ prevCount > 0
    /\ ret = <<NA, NA>>

\* C8: a get call whose sample has no archive record returns the value
\* stored before the call or the sentinel.
C8_NoArchiveNoNewGust ==
    (GetCalled /\ ~HasArchive) => ret \in {prevValue, <<NA, NA>>}

\* C8 witness: without an archive record an active gust is returned again,
\* and an expired one gives way to the sentinel.
C8_Witness ==
    /\ GetCalled /\ ~HasArchive
    /\ prevValue # <<NA, NA>>
    /\ \/ prevCount > 0 /\ ret = prevValue
       \/ prevCount = 0 /\ ret = <<NA, NA>>

\* C9: in a call without a qualifying archive record the counter does not
\* increase: it decreases by exactly one tick if it was positive and stays
\* 0 if it was 0, so it goes down to 0 and stays there.
C9_CounterDecays ==
    (GetCalled /\ ~(HasArchive /\ fields.Archive[1].WindHi >= fields.WindSpeed10Min + 7))
        => /\ (prevCount > 0 => count = prevCount - delay.val)
           /\ (prevCount = 0 => count = 0)
           /\ count <= prevCount
           /\ count >= 0

\* C10: given that parse() returned normally, the cycle raises
\* NoSensorException if and only if the outdoor temperature is > 200.
C10_SensorFaultIffAbove200 ==
    ParsedCycle => (exc = "NoSensorException" <=> fields.TempOut > 2000)

\* C10 witness: a cycle with a temperature of exactly 200.0 that did not
\* raise NoSensorException.
C10_Witness ==
    ParsedCycle /\ fields.TempOut = 2000 /\ exc # "NoSensorException"

Occurrences(seq, x) == Cardinality({i \in DOMAIN seq : seq[i] = x})

\* the last step was a cycle, and it raised e
CycleRaised(e) == calls # <<>> /\ pc # "harness" /\ exc = e

\* C11: a cycle that raises SensorFault is abandoned: the GustTracker is
\* not called and GustState is unchanged, set and publish are not called,
\* exactly one error is logged and the loop goes on to the next sleep.
C11_SensorFaultAbandonsCycle ==
    CycleRaised("NoSensorException")
        => /\ calls = <<"parse">>
           /\ value = prevValue /\ count = prevCount
           /\ errors = 1
           /\ pc = "sleep" /\ exitCode = -1

\* C11 witness: a cycle read 200.1 degrees and raised SensorFault.
C11_Witness ==
    /\ CycleRaised("NoSensorException") /\ fields.TempOut = 2001
    /\ calls = <<"parse">> /\ errors = 1 /\ pc = "sleep"

\* C12: when parse() throws, one error is logged, nothing else of the cycle
\* runs, and the loop's next step is the sleep, not termination.
C12_DriverFaultLoggedOnce ==
    CycleRaised("DriverFault")
        => /\ errors = 1
           /\ calls = <<"parse">>
           /\ pc = "sleep" /\ exitCode = -1

\* C12 witness: parse() threw in the cycle that last ran, and the loop is
\* at its sleep.
C12_Witness ==
    CycleRaised("DriverFault") /\ errors = 1 /\ pc = "sleep" /\ tick # -1

\* C13: every cycle starts right after a sleep of interval - (now mod
\* interval) seconds, which is in (0, interval] and ends on a multiple of
\* the interval, later than the tick of the cycle before.
C13_AlignedSleep ==
    (pc = "cycle")
        => /\ 0 < next_update /\ next_update <= delay.val
           /\ now = tick
           /\ tick % delay.val = 0
           /\ (prevTick # -1 => tick > prevTick)

\* C13 witness: a cycle starts on a tick more than one interval after the
\* tick before it (the cycle between them outlasted the interval).
C13_Witness ==
    /\ pc = "cycle" /\ prevTick # -1
    /\ tick - prevTick > delay.val
    /\ tick % delay.val = 0

\* C14: between two sleeps parse() and publish() are each called at most
\* once, and after a fault the loop's next step is the sleep.
C14_NoRetryInCycle ==
    /\ Occurrences(calls, "parse") <= 1
    /\ Occurrences(calls, "publish") <= 1
    /\ (calls # <<>> /\ pc # "harness" /\ exc # "none") => pc = "sleep"

\* C14 witness: a cycle faulted after its one parse() call and the loop is
\* at its sleep.
C14_Witness ==
    /\ CycleRaised("TypeError") /\ pc = "sleep"
    /\ Occurrences(calls, "parse") = 1 /\ Occurrences(calls, "publish") = 0

\* C15: with a positional argument missing the process exits at once with
\* status -1 (255) and never polls; with both given it enters the loop and
\* runs indefinitely.
C15_ExitOrRunForever ==
    (pc # "start")
        => /\ (args < 2) =>
                (pc = "exited" /\ exitCode = 255 /\ calls = <<>> /\ tick = -1)
           /\ (args = 2) => (pc \in {"sleep", "cycle"})

\* C16: every cycle that passes validation calls the GustTracker exactly
\* once, before the payload is staged, and leaves GustState as that call
\* left it, whether or not publish() then fails.
C16_GustMutatedOncePerCycle ==
    (ParsedCycle /\ fields.TempOut <= 2000)
        => /\ Occurrences(calls, "get") = 1
           /\ Occurrences(calls, "set") = 1
           /\ value = GetBody(prevValue, prevCount, fields, delay.val, py).value
           /\ count = GetBody(prevValue, prevCount, fields, delay.val, py).count

\* C17: every value get returns is the sentinel or the pair of the most
\* recent archive record seen so far, and that record had
\* windHi >= windSpeed10Min + 7 when it was seen.
C17_OnlyLatestQualifyingGust ==
    GetCalled =>
        \/ ret = <<-1, -1>>
        \/ /\ lastRec # <<>>
           /\ ret = <<lastRec[1].hi, lastRec[1].dir>>
           /\ lastRec[1].hi >= lastRec[1].avg + 7

\* C17 witness: a new qualifying record arrives while an earlier, different
\* gust still has ticks left, and the call returns the new pair.
C17_Witness ==
    /\ GetCalled /\ HasArchive
    /\ prevValue # <<-1, -1>> /\ prevCount > 0
    /\ ArchivePair # prevValue
    /\ ret = ArchivePair

====
